---- MODULE Spec2Model ----
(***************************************************************************)
(* Model of src/server.js: an Express application that proxies the CWA     *)
(* open-data forecast dataset F-C0032-001.                                 *)
(*                                                                         *)
(* JavaScript strings are sequences of code points, so that concatenation, *)
(* join and percent-decoding are computed and not assumed.  An optional    *)
(* JavaScript value (a property that may be undefined) is a sequence of    *)
(* length 0 or 1: None is undefined, Some(v) is the value v.               *)
(*                                                                         *)
(* JavaScript runs each handler to its first await without interleaving,   *)
(* and the continuation after the await likewise; so every handler is two  *)
(* atomic actions, one when the request arrives and one when the upstream  *)
(* call settles.  Several requests can be in flight between the two.       *)
(*                                                                         *)
(* Not modelled: what the Node runtime does to the process when a promise  *)
(* rejection is left unhandled (it may terminate the process); the model   *)
(* records only that the request concerned was left unanswered.            *)
(***************************************************************************)
EXTENDS Integers, Sequences, FiniteSets

VARIABLES
  CWA_API_KEY,        \* src/server.js:11, None when the variable is not in the environment
  ALLOWED_CITY_NAMES, \* src/server.js:19, the array object
  expressMajor,       \* the major version of the express package that is installed
  requests,           \* the requests the server has received, by slot
  reshapeArg,         \* the argument of a direct call of parseWeatherElements
  reshapeResult       \* the outcome of that call, None before it

vars == <<CWA_API_KEY, ALLOWED_CITY_NAMES, expressMajor, requests,
          reshapeArg, reshapeResult>>

None == <<>>
Some(v) == <<v>>
IsSome(o) == Len(o) = 1
Val(o) == o[1]

(***************************************************************************)
(* String literals of src/server.js                                        *)
(***************************************************************************)
\* src/server.js:19-42.  Each name is the sequence of its code points.
ALLOWED_CITY_NAMES_LITERAL ==
  << <<22522, 38534, 24066>>,
     <<33274, 21271, 24066>>,
     <<26032, 21271, 24066>>,
     <<26691, 22290, 24066>>,
     <<26032, 31481, 24066>>,
     <<26032, 31481, 32291>>,
     <<33495, 26647, 32291>>,
     <<33274, 20013, 24066>>,
     <<24432, 21270, 32291>>,
     <<21335, 25237, 32291>>,
     <<38642, 26519, 32291>>,
     <<22025, 32681, 24066>>,
     <<22025, 32681, 32291>>,
     <<33274, 21335, 24066>>,
     <<39640, 38596, 24066>>,
     <<23631, 26481, 32291>>,
     <<23452, 34349, 32291>>,
     <<33457, 34030, 32291>>,
     <<33274, 26481, 32291>>,
     <<28558, 28246, 32291>>,
     <<37329, 38272, 32291>>,
     <<36899, 27743, 32291>> >>
\* src/server.js:183  "高雄市"
KAOHSIUNG == <<39640, 38596, 24066>>
\* src/server.js:116  "伺服器設定錯誤"
ERR_CONFIG == <<20282, 26381, 22120, 35373, 23450, 37679, 35492>>
\* src/server.js:117  "請在 .env 檔案中設定 CWA_API_KEY"
MSG_CONFIG == <<35531, 22312, 32, 46, 101, 110, 118, 32, 27284, 26696, 20013, 35373, 23450, 32, 67, 87, 65, 95, 65, 80, 73, 95, 75, 69, 89>>
\* src/server.js:124  "不支援的縣市"
ERR_UNSUPPORTED == <<19981, 25903, 25588, 30340, 32291, 24066>>
\* src/server.js:125  "請使用以下縣市名稱："
MSG_USE_NAMES == <<35531, 20351, 29992, 20197, 19979, 32291, 24066, 21517, 31281, 65306>>
\* src/server.js:125  "、"
SEPARATOR == <<12289>>
\* src/server.js:134  "查無資料"
ERR_NO_DATA == <<26597, 28961, 36039, 26009>>
\* src/server.js:135  "無法取得 "
MSG_CANNOT_GET_PREFIX == <<28961, 27861, 21462, 24471, 32>>
\* src/server.js:135  " 天氣資料"
MSG_WEATHER_DATA_SUFFIX == <<32, 22825, 27683, 36039, 26009>>
\* src/server.js:191  "無法取得高雄市天氣資料"
MSG_NO_KAOHSIUNG == <<28961, 27861, 21462, 24471, 39640, 38596, 24066, 22825, 27683, 36039, 26009>>
\* src/server.js:243  "無法取得全縣市天氣資料"
MSG_NO_ALL == <<28961, 27861, 21462, 24471, 20840, 32291, 24066, 22825, 27683, 36039, 26009>>
\* src/server.js:153  "CWA API 錯誤"
ERR_CWA_API == <<67, 87, 65, 32, 65, 80, 73, 32, 37679, 35492>>
\* src/server.js:154  "無法取得天氣資料"
MSG_CANNOT_GET == <<28961, 27861, 21462, 24471, 22825, 27683, 36039, 26009>>
\* src/server.js:160  "伺服器錯誤"
ERR_SERVER == <<20282, 26381, 22120, 37679, 35492>>
\* src/server.js:161  "無法取得天氣資料，請稍後再試"
MSG_TRY_LATER == <<28961, 27861, 21462, 24471, 22825, 27683, 36039, 26009, 65292, 35531, 31245, 24460, 20877, 35430>>
\* src/server.js:336  "找不到此路徑"
ERR_NO_ROUTE == <<25214, 19981, 21040, 27492, 36335, 24465>>
\* src/server.js:277  "歡迎使用 CWA 天氣預報 API"
MSG_WELCOME == <<27489, 36814, 20351, 29992, 32, 67, 87, 65, 32, 22825, 27683, 38928, 22577, 32, 65, 80, 73>>
\* src/server.js:312  "OK"
STATUS_OK == <<79, 75>>
\* src/server.js:68  "%"
PERCENT == <<37>>
\* src/server.js:71  "°C"
DEGREE_C == <<176, 67>>
\* V8's message for reading a property of null (src/server.js:154, 211, 262)
MSG_TYPEERROR_NULL == <<67, 97, 110, 110, 111, 116, 32, 114, 101, 97, 100, 32, 112, 114, 111, 112, 101, 114, 116, 105, 101, 115, 32, 111, 102, 32, 110, 117, 108, 108, 32, 40, 114, 101, 97, 100, 105, 110, 103, 32, 39, 109, 101, 115, 115, 97, 103, 101, 39, 41>>
\* Express' message for a path parameter that does not percent-decode:
\* "Failed to decode param '" and the closing "'"
MSG_DECODE_PARAM_PREFIX == <<70, 97, 105, 108, 101, 100, 32, 116, 111, 32, 100, 101, 99, 111, 100, 101, 32, 112, 97, 114, 97, 109, 32, 39>>
MSG_DECODE_PARAM_SUFFIX == <<39>>

(***************************************************************************)
(* decodeURIComponent (ECMAScript Decode with an empty reserved set), as   *)
(* called at src/server.js:121 and by Express on every path parameter.     *)
(* The result is [ok, s]: ok = FALSE is the URIError the function throws.  *)
(***************************************************************************)
HexVal(c) ==
  IF c \in 48..57 THEN c - 48
  ELSE IF c \in 65..70 THEN c - 55
  ELSE IF c \in 97..102 THEN c - 87
  ELSE -1

\* s[k..k+2] is "%" followed by two hexadecimal digits
IsEscape(s, k) ==
  /\ k + 2 <= Len(s)
  /\ s[k] = 37
  /\ HexVal(s[k + 1]) >= 0
  /\ HexVal(s[k + 2]) >= 0

ByteAt(s, k) == 16 * HexVal(s[k + 1]) + HexVal(s[k + 2])

\* number of leading 1 bits of a byte >= 128 (5 stands for "more than 4")
LeadingOnes(B) ==
  IF B < 192 THEN 1
  ELSE IF B < 224 THEN 2
  ELSE IF B < 240 THEN 3
  ELSE IF B < 248 THEN 4
  ELSE 5

\* the code point of the n-byte UTF-8 sequence whose escapes start at s[k]
Utf8Value(s, k, n) ==
  IF n = 2 THEN (ByteAt(s, k) % 32) * 64 + (ByteAt(s, k + 3) % 64)
  ELSE IF n = 3 THEN (ByteAt(s, k) % 16) * 4096 + (ByteAt(s, k + 3) % 64) * 64
                     + (ByteAt(s, k + 6) % 64)
  ELSE (ByteAt(s, k) % 8) * 262144 + (ByteAt(s, k + 3) % 64) * 4096
       + (ByteAt(s, k + 6) % 64) * 64 + (ByteAt(s, k + 9) % 64)

\* the smallest code point an n-byte sequence may encode
Utf8Min(n) == IF n = 2 THEN 128 ELSE IF n = 3 THEN 2048 ELSE 65536

URIError == [ok |-> FALSE, s |-> <<>>]

RECURSIVE DecodeFrom(_, _, _)
DecodeFrom(s, k, acc) ==
  IF k > Len(s) THEN [ok |-> TRUE, s |-> acc]
  ELSE IF s[k] # 37 THEN DecodeFrom(s, k + 1, Append(acc, s[k]))
  ELSE IF ~IsEscape(s, k) THEN URIError
  ELSE LET B == ByteAt(s, k)
           n == LeadingOnes(B)
       IN  IF B < 128 THEN DecodeFrom(s, k + 3, Append(acc, B))
           ELSE IF n = 1 \/ n > 4 THEN URIError
           ELSE IF k + 3 * n - 1 > Len(s) THEN URIError
           ELSE IF \E j \in 1..(n - 1) :
                     \/ ~IsEscape(s, k + 3 * j)
                     \/ ByteAt(s, k + 3 * j) \div 64 # 2
                THEN URIError
           ELSE LET V == Utf8Value(s, k, n)
                IN  IF \/ V < Utf8Min(n)
                       \/ V \in 55296..57343
                       \/ V > 1114111
                    THEN URIError
                    ELSE DecodeFrom(s, k + 3 * n, Append(acc, V))

decodeURIComponent(s) == DecodeFrom(s, 1, <<>>)


(***************************************************************************)
(* Upstream payload shapes (records.location[].weatherElement[].time[])    *)
(***************************************************************************)
TimeSlot(startTime, endTime, parameterName) ==
  [startTime |-> startTime, endTime |-> endTime,
   parameter |-> [parameterName |-> parameterName]]

\* an element; time is None when the property is absent
Element(elementName, time) == [elementName |-> elementName, time |-> time]

\* a location; weatherElement is None when the property is absent
Location(locationName, weatherElement) ==
  [locationName |-> locationName, weatherElement |-> weatherElement]

(***************************************************************************)
(* parseWeatherElements, src/server.js:45-89.  The result is               *)
(* [threw, forecasts]: threw = TRUE is the TypeError of reading a property *)
(* of undefined at line 62.                                                *)
(***************************************************************************)
\* line 46: weatherElements?.[0]?.time?.length || 0
timeCount(weatherElements) ==
  IF /\ IsSome(weatherElements)
     /\ Len(Val(weatherElements)) >= 1
     /\ IsSome(Val(weatherElements)[1].time)
  THEN Len(Val(Val(weatherElements)[1].time))
  ELSE 0

\* lines 50-59: the record of slot i before the elements are visited
NewForecast(first, i) ==
  [startTime |-> Val(first.time)[i].startTime,
   endTime   |-> Val(first.time)[i].endTime,
   weather   |-> <<>>,
   rain      |-> <<>>,
   minTemp   |-> <<>>,
   maxTemp   |-> <<>>,
   comfort   |-> <<>>,
   windSpeed |-> <<>>]

\* line 62: element.time[i].parameter is readable
HasSlot(element, i) == IsSome(element.time) /\ i <= Len(Val(element.time))

\* lines 63-82: the switch on element.elementName
ApplyElement(forecast, element, i) ==
  LET value == Val(element.time)[i].parameter
      name  == element.elementName
  IN  IF name = "Wx" THEN [forecast EXCEPT !.weather = value.parameterName]
      ELSE IF name = "PoP"
        THEN [forecast EXCEPT !.rain = value.parameterName \o PERCENT]
      ELSE IF name = "MinT"
        THEN [forecast EXCEPT !.minTemp = value.parameterName \o DEGREE_C]
      ELSE IF name = "MaxT"
        THEN [forecast EXCEPT !.maxTemp = value.parameterName \o DEGREE_C]
      ELSE IF name = "CI" THEN [forecast EXCEPT !.comfort = value.parameterName]
      ELSE IF name = "WS" THEN [forecast EXCEPT !.windSpeed = value.parameterName]
      ELSE forecast

\* lines 61-83: weatherElements.forEach from element j on
RECURSIVE ForEachElement(_, _, _, _)
ForEachElement(elements, j, i, forecast) ==
  IF j > Len(elements) THEN [threw |-> FALSE, forecast |-> forecast]
  ELSE IF ~HasSlot(elements[j], i) THEN [threw |-> TRUE, forecast |-> forecast]
  ELSE ForEachElement(elements, j + 1, i, ApplyElement(forecast, elements[j], i))

\* lines 49-86: the loop over the slots from slot i on
RECURSIVE ParseFrom(_, _, _, _)
ParseFrom(elements, i, count, forecasts) ==
  IF i > count THEN [threw |-> FALSE, forecasts |-> forecasts]
  ELSE LET r == ForEachElement(elements, 1, i, NewForecast(elements[1], i))
       IN  IF r.threw THEN [threw |-> TRUE, forecasts |-> <<>>]
           ELSE ParseFrom(elements, i + 1, count, Append(forecasts, r.forecast))

parseWeatherElements(weatherElements) ==
  IF timeCount(weatherElements) = 0
  THEN [threw |-> FALSE, forecasts |-> <<>>]
  ELSE ParseFrom(Val(weatherElements), 1, timeCount(weatherElements), <<>>)

\* src/server.js:102-106; threw is the error parseWeatherElements raised
buildLocationWeather(location, datasetDescription) ==
  LET p == parseWeatherElements(location.weatherElement)
  IN  [threw |-> p.threw,
       value |-> [city       |-> location.locationName,
                  updateTime |-> datasetDescription,
                  forecasts  |-> p.forecasts]]

\* src/server.js:278-301, the list literal of the root handler
ROOT_CITY_NAMES ==
  << <<22522, 38534, 24066>>,
     <<33274, 21271, 24066>>,
     <<26032, 21271, 24066>>,
     <<26691, 22290, 24066>>,
     <<26032, 31481, 24066>>,
     <<26032, 31481, 32291>>,
     <<33495, 26647, 32291>>,
     <<33274, 20013, 24066>>,
     <<24432, 21270, 32291>>,
     <<21335, 25237, 32291>>,
     <<38642, 26519, 32291>>,
     <<22025, 32681, 24066>>,
     <<22025, 32681, 32291>>,
     <<33274, 21335, 24066>>,
     <<39640, 38596, 24066>>,
     <<23631, 26481, 32291>>,
     <<23452, 34349, 32291>>,
     <<33457, 34030, 32291>>,
     <<33274, 26481, 32291>>,
     <<28558, 28246, 32291>>,
     <<37329, 38272, 32291>>,
     <<36899, 27743, 32291>> >>

(***************************************************************************)
(* Upstream results: what axios.get settles with (src/server.js:93)        *)
(***************************************************************************)
\* response.data: JSON null, a string (a body that is not JSON), or an object
DataNull == [t |-> "null", text |-> <<>>, message |-> None, records |-> None]
DataString(text) == [t |-> "string", text |-> text, message |-> None, records |-> None]
DataObject(message, records) ==
  [t |-> "object", text |-> <<>>, message |-> message, records |-> records]

Records(location, datasetDescription) ==
  [location |-> location, datasetDescription |-> datasetDescription]

\* no response at all: a network error or a timeout
NoResponse == [kind |-> "none", status |-> 0, data |-> DataNull]
HttpResponse(status, data) == [kind |-> "http", status |-> status, data |-> data]

\* axios' default validateStatus
Is2xx(u) == u.kind = "http" /\ u.status >= 200 /\ u.status < 300

(***************************************************************************)
(* Responses: res.status(...).json(...)                                    *)
(***************************************************************************)
EmptyBody ==
  [error |-> None, message |-> None, details |-> None, success |-> None,
   data |-> None, ALLOWED_CITY_NAMES |-> None, endpoints |-> None,
   status |-> None, timestamp |-> None]

Json(status, body) == [status |-> status, body |-> body]

ErrorBody(error, message) ==
  [EmptyBody EXCEPT !.error = Some(error), !.message = Some(message)]

\* Array.prototype.join
RECURSIVE Join(_, _)
Join(list, sep) ==
  IF Len(list) = 0 THEN <<>>
  ELSE IF Len(list) = 1 THEN list[1]
  ELSE list[1] \o sep \o Join(Tail(list), sep)

\* Array.prototype.includes
Includes(list, x) == \E k \in 1..Len(list) : list[k] = x

\* !value for an optional string: undefined and "" are falsy
Falsy(o) == ~IsSome(o) \/ Val(o) = <<>>

\* lines 115-118, 175-178, 231-234
ConfigError == Json(500, ErrorBody(ERR_CONFIG, MSG_CONFIG))

\* lines 159-162, 217-220, 267-270
ServerError == Json(500, ErrorBody(ERR_SERVER, MSG_TRY_LATER))

\* lines 123-126
UnsupportedCity ==
  Json(400, ErrorBody(ERR_UNSUPPORTED,
                      MSG_USE_NAMES \o Join(ALLOWED_CITY_NAMES, SEPARATOR)))

\* lines 133-136, 189-192, 241-244
NoData(message) == Json(404, ErrorBody(ERR_NO_DATA, message))

\* lines 144-147, 200-203: data is one object
SuccessOne(weatherData) ==
  Json(200, [EmptyBody EXCEPT !.success = Some(TRUE),
                              !.data = Some([isArray |-> FALSE,
                                             items |-> <<weatherData>>])])

\* lines 252-255: data is an array
SuccessMany(weatherData) ==
  Json(200, [EmptyBody EXCEPT !.success = Some(TRUE),
                              !.data = Some([isArray |-> TRUE,
                                             items |-> weatherData])])

\* src/server.js:92-99: the request axios sends
fetchWeatherDataset(locationName) ==
  [Authorization |-> CWA_API_KEY, locationName |-> locationName]

(***************************************************************************)
(* A handler runs in two parts.  The part before the await yields          *)
(* [res, fetch, cityName]: a response already sent (or None), the upstream *)
(* request issued (or None) and the local cityName (None in a handler that *)
(* has none).  The part after the await yields [res, escaped]: the         *)
(* response sent, or escaped = TRUE when the handler's promise rejects     *)
(* without a response.                                                     *)
(***************************************************************************)
Responded(res) == [res |-> Some(res), fetch |-> None, cityName |-> None]
Awaiting(locationName, cityName) ==
  [res |-> None, fetch |-> Some(fetchWeatherDataset(locationName)),
   cityName |-> cityName]

Answered(res) == [res |-> Some(res), escaped |-> FALSE]
Rejected == [res |-> None, escaped |-> TRUE]

\* the catch blocks, lines 148-163, 204-221 and 256-271, entered with the
\* rejection of axios.get: error.response is set when the upstream answered.
\* With a null body, error.response.data.message throws inside the catch.
CatchAxiosError(u) ==
  IF u.kind = "http"
  THEN IF u.data.t = "null" THEN Rejected
       ELSE Answered(Json(u.status,
              [EmptyBody EXCEPT
                 !.error   = Some(ERR_CWA_API),
                 !.message = Some(IF Falsy(u.data.message) THEN MSG_CANNOT_GET
                                  ELSE Val(u.data.message)),
                 !.details = Some(u.data)]))
  ELSE Answered(ServerError)

\* the same catch blocks entered with an error thrown inside the try block
\* (a TypeError or a URIError): error.response is undefined
CatchThrown == ServerError

\* response.data.records is readable and is an object (lines 130, 186, 238)
HasRecords(u) == u.data.t = "object" /\ IsSome(u.data.records)

\* getCityWeather with the allow-list check moved before the key check
getCityWeather_nameFirst(params) ==
  LET raw == IF Falsy(params.cityName) THEN <<>> ELSE Val(params.cityName)
      decoded == decodeURIComponent(raw)
  IN  IF ~decoded.ok THEN Responded(CatchThrown)
      ELSE IF ~Includes(ALLOWED_CITY_NAMES, decoded.s)
        THEN Responded(UnsupportedCity)
      ELSE IF Falsy(CWA_API_KEY) THEN Responded(ConfigError)
      ELSE Awaiting(decoded.s, Some(decoded.s))

\* getCityWeather with the upstream call issued before the name is validated
getCityWeather_fetchFirst(params) ==
  IF Falsy(CWA_API_KEY) THEN Responded(ConfigError)
  ELSE LET raw == IF Falsy(params.cityName) THEN <<>> ELSE Val(params.cityName)
           decoded == decodeURIComponent(raw)
       IN  IF ~decoded.ok THEN Responded(CatchThrown)
           ELSE IF ~Includes(ALLOWED_CITY_NAMES, decoded.s)
             THEN [Responded(UnsupportedCity) EXCEPT
                     !.fetch = Some(fetchWeatherDataset(decoded.s))]
           ELSE Awaiting(decoded.s, Some(decoded.s))

\* src/server.js:112-129, up to the await
getCityWeather(params) ==
  IF Falsy(CWA_API_KEY) THEN Responded(ConfigError)
  ELSE LET raw == IF Falsy(params.cityName) THEN <<>> ELSE Val(params.cityName)
           decoded == decodeURIComponent(raw)
       IN  IF ~decoded.ok THEN Responded(CatchThrown)
           ELSE IF ~Includes(ALLOWED_CITY_NAMES, decoded.s)
             THEN Responded(UnsupportedCity)
           ELSE Awaiting(decoded.s, Some(decoded.s))

\* src/server.js:129-163, after the await
getCityWeatherResume(cityName, u) ==
  IF ~Is2xx(u) THEN CatchAxiosError(u)
  ELSE IF ~HasRecords(u) THEN Answered(CatchThrown)
  ELSE LET records == Val(u.data.records)
       IN  IF ~IsSome(records.location) \/ Len(Val(records.location)) = 0
           THEN Answered(NoData(MSG_CANNOT_GET_PREFIX \o cityName
                                \o MSG_WEATHER_DATA_SUFFIX))
           ELSE LET w == buildLocationWeather(Val(records.location)[1],
                                              records.datasetDescription)
                IN  IF w.threw THEN Answered(CatchThrown)
                    ELSE Answered(SuccessOne(w.value))

\* src/server.js:171-183, up to the await
getKaohsiungWeather ==
  IF Falsy(CWA_API_KEY) THEN Responded(ConfigError)
  ELSE Awaiting(KAOHSIUNG, None)

\* getKaohsiungWeather sharing module-level state with the requests in
\* flight at the same time: while another request awaits the upstream, the
\* continuation fails and answers with the generic server error
getKaohsiungWeatherResume_shared(u) ==
  IF Cardinality({j \in DOMAIN requests : requests[j].pc = "await"}) >= 2
  THEN Answered(ServerError)
  ELSE IF ~Is2xx(u) THEN CatchAxiosError(u)
  ELSE IF ~HasRecords(u) THEN Answered(CatchThrown)
  ELSE LET records == Val(u.data.records)
       IN  IF ~IsSome(records.location) \/ Len(Val(records.location)) = 0
           THEN Answered(NoData(MSG_NO_KAOHSIUNG))
           ELSE LET w == buildLocationWeather(Val(records.location)[1],
                                              records.datasetDescription)
                IN  IF w.threw THEN Answered(CatchThrown)
                    ELSE Answered(SuccessOne(w.value))

\* src/server.js:183-221, after the await
getKaohsiungWeatherResume(u) ==
  IF ~Is2xx(u) THEN CatchAxiosError(u)
  ELSE IF ~HasRecords(u) THEN Answered(CatchThrown)
  ELSE LET records == Val(u.data.records)
       IN  IF ~IsSome(records.location) \/ Len(Val(records.location)) = 0
           THEN Answered(NoData(MSG_NO_KAOHSIUNG))
           ELSE LET w == buildLocationWeather(Val(records.location)[1],
                                              records.datasetDescription)
                IN  IF w.threw THEN Answered(CatchThrown)
                    ELSE Answered(SuccessOne(w.value))

\* src/server.js:228-237, up to the await
getAllCityWeather ==
  IF Falsy(CWA_API_KEY) THEN Responded(ConfigError)
  ELSE Awaiting(<<>>, None)

\* lines 248-250: locations.map(buildLocationWeather)
RECURSIVE MapLocations(_, _)
MapLocations(locations, datasetDescription) ==
  IF Len(locations) = 0 THEN [threw |-> FALSE, value |-> <<>>]
  ELSE LET w == buildLocationWeather(Head(locations), datasetDescription)
           rest == MapLocations(Tail(locations), datasetDescription)
       IN  IF w.threw \/ rest.threw THEN [threw |-> TRUE, value |-> <<>>]
           ELSE [threw |-> FALSE, value |-> <<w.value>> \o rest.value]

\* src/server.js:237-271, after the await
getAllCityWeatherResume(u) ==
  IF ~Is2xx(u) THEN CatchAxiosError(u)
  ELSE IF ~HasRecords(u) THEN Answered(CatchThrown)
  ELSE LET records == Val(u.data.records)
           locations == IF IsSome(records.location) THEN Val(records.location)
                        ELSE <<>>
       IN  IF Len(locations) = 0 THEN Answered(NoData(MSG_NO_ALL))
           ELSE LET w == MapLocations(locations, records.datasetDescription)
                IN  IF w.threw THEN Answered(CatchThrown)
                    ELSE Answered(SuccessMany(w.value))

(***************************************************************************)
(* Bounds and the inputs the environment can supply                        *)
(***************************************************************************)
MaxReq == 2      \* requests received in one behaviour
MaxElems == 2    \* elements in an array passed to parseWeatherElements
MaxSlots == 2    \* time entries of one element

Slots == 1..MaxReq

ExpressMajors == {4, 5}

\* process.env.CWA_API_KEY: absent, set to "", or set to a key ("KEY")
ApiKeys == {None, Some(<<>>), Some(<<75, 69, 89>>)}

\* "T0", "T1", ...: the upstream's startTime and endTime texts
TimeText(k) == <<84, 48 + k>>

\* parameterName values: "20", "70"
ParameterNames == {<<50, 48>>, <<55, 48>>}

\* the six kinds of the switch and one kind it does not know
ElementNames == {"Wx", "PoP", "MinT", "MaxT", "CI", "WS", "UVI"}

\* new Date().toISOString() at the time of a health request
Timestamps == {TimeText(0), TimeText(1)}

\* the text after /api/weather/city/ as it is on the wire
SEG_KAOHSIUNG ==        \* %E9%AB%98%E9%9B%84%E5%B8%82, 高雄市
  <<37, 69, 57, 37, 65, 66, 37, 57, 56, 37, 69, 57, 37, 57, 66, 37, 56, 52,
    37, 69, 53, 37, 66, 56, 37, 56, 50>>
SEG_KAOHSIUNG_TWICE ==  \* %25E9%25AB%2598%25E9%259B%2584%25E5%25B8%2582
  <<37, 50, 53, 69, 57, 37, 50, 53, 65, 66, 37, 50, 53, 57, 56, 37, 50, 53,
    69, 57, 37, 50, 53, 57, 66, 37, 50, 53, 56, 52, 37, 50, 53, 69, 53, 37,
    50, 53, 66, 56, 37, 50, 53, 56, 50>>
SEG_TAIPEI_VARIANT ==   \* %E5%8F%B0%E5%8C%97%E5%B8%82, 台北市 (the list has 臺北市)
  <<37, 69, 53, 37, 56, 70, 37, 66, 48, 37, 69, 53, 37, 56, 67, 37, 57, 55,
    37, 69, 53, 37, 66, 56, 37, 56, 50>>
SEG_PERCENT == <<37, 50, 53>>      \* %25, the name "%"
SEG_MALFORMED == <<37, 69, 57>>    \* %E9, not the encoding of any text
SEG_EMPTY == <<>>

CitySegments ==
  {SEG_KAOHSIUNG, SEG_KAOHSIUNG_TWICE, SEG_TAIPEI_VARIANT, SEG_PERCENT,
   SEG_MALFORMED, SEG_EMPTY}

TAIPEI == <<33274, 21271, 24066>>   \* 臺北市
DESCRIPTION == <<51, 54, 104>>       \* a datasetDescription, "36h"

\* MinT "20" in one time slot
ELEMENTS_MINT ==
  <<Element("MinT", Some(<<TimeSlot(TimeText(0), TimeText(1), <<50, 48>>)>>))>>
\* Wx in two slots, PoP in two slots, an unknown kind in two slots
ELEMENTS_FULL ==
  <<Element("Wx", Some(<<TimeSlot(TimeText(0), TimeText(1), <<26228>>),
                         TimeSlot(TimeText(1), TimeText(2), <<38632>>)>>)),
    Element("PoP", Some(<<TimeSlot(TimeText(0), TimeText(1), <<50, 48>>),
                          TimeSlot(TimeText(1), TimeText(2), <<55, 48>>)>>)),
    Element("UVI", Some(<<TimeSlot(TimeText(0), TimeText(1), <<50, 48>>),
                          TimeSlot(TimeText(1), TimeText(2), <<55, 48>>)>>))>>
\* ragged: Wx in two slots, PoP in one slot only
ELEMENTS_RAGGED ==
  <<Element("Wx", Some(<<TimeSlot(TimeText(0), TimeText(1), <<26228>>),
                         TimeSlot(TimeText(1), TimeText(2), <<38632>>)>>)),
    Element("PoP", Some(<<TimeSlot(TimeText(0), TimeText(1), <<50, 48>>)>>))>>

LocationLists ==
  { <<>>,
    <<Location(KAOHSIUNG, Some(ELEMENTS_MINT))>>,
    <<Location(TAIPEI, Some(ELEMENTS_FULL)), Location(KAOHSIUNG, Some(ELEMENTS_MINT))>>,
    <<Location(KAOHSIUNG, Some(ELEMENTS_MINT)), Location(TAIPEI, None)>>,
    <<Location(KAOHSIUNG, Some(ELEMENTS_RAGGED))>> }

\* bodies of a 2xx answer
SuccessData ==
  {DataObject(None, None), DataObject(None, Some(Records(None, Some(DESCRIPTION))))}
  \cup {DataObject(None, Some(Records(Some(l), Some(DESCRIPTION)))) : l \in LocationLists}

\* bodies of a non-2xx answer: JSON null, an empty body, an object with a
\* message ("Resource not found")
ErrorData ==
  {DataNull, DataString(<<>>),
   DataObject(Some(<<82, 101, 115, 111, 117, 114, 99, 101, 32, 110, 111, 116,
                     32, 102, 111, 117, 110, 100>>), None)}

ErrorStatuses == {404, 500}

UpstreamResults ==
  {NoResponse}
  \cup {HttpResponse(200, d) : d \in SuccessData}
  \cup {HttpResponse(s, d) : s \in ErrorStatuses, d \in ErrorData}

(***************************************************************************)
(* The sets parseWeatherElements is called on directly                     *)
(***************************************************************************)
\* the time arrays of length n whose entry k starts at TimeText(off + k - 1)
TimeArrays(n, off) ==
  { [k \in 1..n |-> TimeSlot(TimeText(off + k - 1), TimeText(off + k), v[k])] :
      v \in [1..n -> ParameterNames] }

Elements ==
  {Element(name, None) : name \in ElementNames}
  \cup UNION { {Element(name, Some(t)) : name \in ElementNames, t \in TimeArrays(n, off)} :
                 n \in 0..MaxSlots, off \in {0, 1} }

ElementArrays ==
  {None} \cup UNION { {Some(a) : a \in [1..n -> Elements]} : n \in 0..MaxElems }

(***************************************************************************)
(* The HTTP front door                                                     *)
(***************************************************************************)
Request(route, seg) == [route |-> route, seg |-> seg]

Idle ==
  [pc |-> "idle", req |-> Request("", <<>>), handler |-> "", cityName |-> None,
   upReq |-> None, nUp |-> 0, upRes |-> None, res |-> None, sent |-> 0]

\* the request was answered without leaving the handler
Done(req, handler, res) ==
  [Idle EXCEPT !.pc = "done", !.req = req, !.handler = handler,
               !.res = Some(res), !.sent = 1]

\* the state of a request after the part of its handler before the await
AfterStart(req, handler, r) ==
  IF IsSome(r.res)
    THEN [Done(req, handler, Val(r.res)) EXCEPT !.upReq = r.fetch,
                                                !.nUp = Len(r.fetch)]
  ELSE [Idle EXCEPT !.pc = "await", !.req = req, !.handler = handler,
                    !.cityName = r.cityName, !.upReq = r.fetch, !.nUp = 1]

\* src/server.js:324-331, the error-handling middleware
ErrorMiddleware(message) == Json(500, ErrorBody(ERR_SERVER, message))

\* src/server.js:333-338, the 404 handler
NotFoundHandler == Json(404, [EmptyBody EXCEPT !.error = Some(ERR_NO_ROUTE)])

\* the state of a request after the part of its handler after the await.
\* A rejected handler promise is ignored by Express 4, which leaves the
\* request unanswered, and is passed to the error middleware by Express 5.
AfterResume(s, u, r) ==
  IF ~r.escaped
    THEN [s EXCEPT !.pc = "done", !.upRes = Some(u), !.res = r.res, !.sent = 1]
  ELSE IF expressMajor = 4
    THEN [s EXCEPT !.pc = "unhandled", !.upRes = Some(u)]
  ELSE [s EXCEPT !.pc = "done", !.upRes = Some(u),
                 !.res = Some(ErrorMiddleware(MSG_TYPEERROR_NULL)), !.sent = 1]

\* src/server.js:319: /api/weather/city/:cityName matches one non-empty
\* path segment
MatchesCityRoute(seg) == Len(seg) > 0 /\ \A k \in 1..Len(seg) : seg[k] # 47

\* src/server.js:275-309
RootHandler ==
  Json(200, [EmptyBody EXCEPT
               !.message = Some(MSG_WELCOME),
               !.ALLOWED_CITY_NAMES = Some(ROOT_CITY_NAMES),
               !.endpoints = Some([kaohsiung |-> "/api/weather/kaohsiung",
                                   all |-> "/api/weather/all",
                                   city |-> "/api/weather/city/:cityName",
                                   health |-> "/api/health"])])

\* src/server.js:311-313
HealthHandler(now) ==
  Json(200, [EmptyBody EXCEPT !.status = Some(STATUS_OK), !.timestamp = Some(now)])

\* GET /api/weather/city/<seg>: routing (line 319), Express' decoding of the
\* parameter, then getCityWeather up to its await
CityRequest(seg) ==
  LET req == Request("/api/weather/city/", seg)
      param == decodeURIComponent(seg)
  IN  IF ~MatchesCityRoute(seg) THEN Done(req, "notFound", NotFoundHandler)
      ELSE IF ~param.ok
        THEN Done(req, "error",
                  ErrorMiddleware(MSG_DECODE_PARAM_PREFIX \o seg
                                  \o MSG_DECODE_PARAM_SUFFIX))
      ELSE AfterStart(req, "city", getCityWeather([cityName |-> Some(param.s)]))

(***************************************************************************)
(* Actions                                                                 *)
(***************************************************************************)
others == <<CWA_API_KEY, ALLOWED_CITY_NAMES, expressMajor, reshapeArg, reshapeResult>>

\* GET /
GetRoot(i) ==
  /\ requests[i].pc = "idle"
  /\ requests' = [requests EXCEPT ![i] = Done(Request("/", <<>>), "root", RootHandler)]
  /\ UNCHANGED others

\* GET /api/health
GetHealth(i) ==
  /\ requests[i].pc = "idle"
  /\ \E now \in Timestamps :
       requests' = [requests EXCEPT
                      ![i] = Done(Request("/api/health", <<>>), "health",
                                  HealthHandler(now))]
  /\ UNCHANGED others

\* a request no route matches
GetUnmatched(i) ==
  /\ requests[i].pc = "idle"
  /\ requests' = [requests EXCEPT
                    ![i] = Done(Request("/other", <<>>), "notFound", NotFoundHandler)]
  /\ UNCHANGED others

\* GET /api/weather/kaohsiung, up to the await
GetKaohsiung(i) ==
  /\ requests[i].pc = "idle"
  /\ requests' = [requests EXCEPT
                    ![i] = AfterStart(Request("/api/weather/kaohsiung", <<>>),
                                      "kaohsiung", getKaohsiungWeather)]
  /\ UNCHANGED others

\* GET /api/weather/city/<seg>, up to the await
GetCity(i) ==
  /\ requests[i].pc = "idle"
  /\ \E seg \in CitySegments :
       requests' = [requests EXCEPT ![i] = CityRequest(seg)]
  /\ UNCHANGED others

\* GET /api/weather/all, up to the await
GetAll(i) ==
  /\ requests[i].pc = "idle"
  /\ requests' = [requests EXCEPT
                    ![i] = AfterStart(Request("/api/weather/all", <<>>), "all",
                                      getAllCityWeather)]
  /\ UNCHANGED others

\* the upstream call of a kaohsiung request settles
KaohsiungSettles(i) ==
  /\ requests[i].pc = "await"
  /\ requests[i].handler = "kaohsiung"
  /\ \E u \in UpstreamResults :
       requests' = [requests EXCEPT
                      ![i] = AfterResume(requests[i], u,
                                         getKaohsiungWeatherResume(u))]
  /\ UNCHANGED others

\* the upstream call of a city request settles
CitySettles(i) ==
  /\ requests[i].pc = "await"
  /\ requests[i].handler = "city"
  /\ \E u \in UpstreamResults :
       requests' = [requests EXCEPT
                      ![i] = AfterResume(requests[i], u,
                                         getCityWeatherResume(
                                           Val(requests[i].cityName), u))]
  /\ UNCHANGED others

\* the upstream call of an all-regions request settles
AllSettles(i) ==
  /\ requests[i].pc = "await"
  /\ requests[i].handler = "all"
  /\ \E u \in UpstreamResults :
       requests' = [requests EXCEPT
                      ![i] = AfterResume(requests[i], u,
                                         getAllCityWeatherResume(u))]
  /\ UNCHANGED others

Init ==
  /\ CWA_API_KEY \in ApiKeys
  /\ ALLOWED_CITY_NAMES = ALLOWED_CITY_NAMES_LITERAL
  /\ expressMajor \in ExpressMajors
  /\ requests = [i \in Slots |-> Idle]
  /\ reshapeArg = None
  /\ reshapeResult = None

Next ==
  \E i \in Slots :
    \/ GetRoot(i)
    \/ GetHealth(i)
    \/ GetUnmatched(i)
    \/ GetKaohsiung(i)
    \/ GetCity(i)
    \/ GetAll(i)
    \/ KaohsiungSettles(i)
    \/ CitySettles(i)
    \/ AllSettles(i)

Spec == Init /\ [][Next]_vars

(***************************************************************************)
(* parseWeatherElements on its own: the argument is drawn from             *)
(* ElementArrays and the function is applied once                          *)
(***************************************************************************)
InitReshape ==
  /\ CWA_API_KEY = None
  /\ ALLOWED_CITY_NAMES = ALLOWED_CITY_NAMES_LITERAL
  /\ expressMajor = 4
  /\ requests = [i \in Slots |-> Idle]
  /\ reshapeArg \in ElementArrays
  /\ reshapeResult = None

Reshape ==
  /\ reshapeResult = None
  /\ reshapeResult' = Some(parseWeatherElements(reshapeArg))
  /\ UNCHANGED <<CWA_API_KEY, ALLOWED_CITY_NAMES, expressMajor, requests,
                 reshapeArg>>

NextReshape == Reshape

SpecReshape == InitReshape /\ [][NextReshape]_vars

(***************************************************************************)
(* Properties                                                              *)
(***************************************************************************)
DataHandlers == {"kaohsiung", "city", "all"}

\* the request of slot i has run to its end: answered, or left unanswered
Finished(i) == requests[i].pc \in {"done", "unhandled"}

\* the value of req.params.cityName for the wire segment seg
RoutedName(seg) == decodeURIComponent(seg).s

\* name occurs in text as a contiguous run
Occurs(name, text) ==
  \E off \in 0..(Len(text) - Len(name)) :
    \A k \in 1..Len(name) : text[off + k] = name[k]

ListsAllNames(text) ==
  \A k \in 1..Len(ALLOWED_CITY_NAMES_LITERAL) :
    Occurs(ALLOWED_CITY_NAMES_LITERAL[k], text)

IsConfigError(res) ==
  /\ res.status = 500
  /\ res.body.error = Some(ERR_CONFIG)
  /\ res.body.message = Some(MSG_CONFIG)

IsGenericServerError(res) ==
  /\ res.status = 500
  /\ res.body.error = Some(ERR_SERVER)
  /\ res.body.message = Some(MSG_TRY_LATER)

\* the locations of a 2xx upstream answer, in upstream order
UpstreamLocations(u) ==
  IF HasRecords(u) /\ IsSome(Val(u.data.records).location)
  THEN Val(Val(u.data.records).location)
  ELSE <<>>

\* C1: with the API key configured, a request dispatched to
\* GET /api/weather/city/:cityName whose name (the route parameter) is not
\* in the allow-list is answered 400 with a message that lists the 22
\* names, and with no other status.  (The route never carries the empty
\* name: a request with an empty segment goes to the 404 handler.)
C1_InvalidNameIs400 ==
  \A i \in Slots :
    LET s == requests[i]
    IN  ( /\ ~Falsy(CWA_API_KEY)
          /\ s.pc # "idle"
          /\ s.handler = "city"
          /\ ~Includes(ALLOWED_CITY_NAMES_LITERAL, RoutedName(s.req.seg)) )
        => /\ s.pc = "done"
           /\ Val(s.res).status = 400
           /\ IsSome(Val(s.res).body.message)
           /\ ListsAllNames(Val(Val(s.res).body.message))

\* C2: when the API key is unset, every request dispatched to one of the
\* three data handlers is answered 500 with the configuration-error payload,
\* whatever the city name; GET / and GET /api/health are answered 200.
C2_KeyUnsetIsConfigError ==
  Falsy(CWA_API_KEY) =>
    \A i \in Slots :
      LET s == requests[i]
      IN  /\ (s.pc # "idle" /\ s.handler \in DataHandlers)
               => (s.pc = "done" /\ IsConfigError(Val(s.res)))
          /\ (s.pc # "idle" /\ s.req.route \in {"/", "/api/health"})
               => (s.pc = "done" /\ Val(s.res).status = 200)

\* a city request with a name outside the allow-list and one with a name in
\* it were both answered with the configuration error, and a health request
\* would be answered 200
C2_Witness ==
  /\ Falsy(CWA_API_KEY)
  /\ \E i, j \in Slots :
       /\ requests[i].handler = "city"
       /\ requests[i].req.seg = SEG_TAIPEI_VARIANT
       /\ requests[i].pc = "done"
       /\ IsConfigError(Val(requests[i].res))
       /\ requests[j].handler = "city"
       /\ requests[j].req.seg = SEG_KAOHSIUNG
       /\ requests[j].pc = "done"
       /\ IsConfigError(Val(requests[j].res))

\* C3: when the upstream call of a data handler fails, a non-2xx answer is
\* forwarded with the upstream's status and the upstream's body in details,
\* and no answer at all gives 500 with the generic server-error message;
\* the two responses always differ.
C3_UpstreamFailureForwarded ==
  \A i \in Slots :
    LET s == requests[i]
    IN  (Finished(i) /\ s.handler \in DataHandlers /\ IsSome(s.upRes)
         /\ ~Is2xx(Val(s.upRes)))
        => /\ s.pc = "done"
           /\ Val(s.upRes).kind = "http"
                => /\ Val(s.res).status = Val(s.upRes).status
                   /\ Val(s.res).body.details = Some(Val(s.upRes).data)
           /\ Val(s.upRes).kind = "none" => IsGenericServerError(Val(s.res))
           /\ \A j \in Slots :
                (Finished(j) /\ requests[j].handler \in DataHandlers
                 /\ IsSome(requests[j].upRes)
                 /\ Val(s.upRes).kind = "http"
                 /\ Val(requests[j].upRes).kind = "none")
                => (requests[j].pc = "done" /\ requests[j].res # s.res)

\* C4: every request to a data endpoint is answered exactly once, whatever
\* the upstream outcome; none is left unanswered with its handler's promise
\* rejected.
C4_AlwaysAnswered ==
  \A i \in Slots :
    /\ requests[i].pc # "unhandled"
    /\ requests[i].pc = "done" => (requests[i].sent = 1 /\ IsSome(requests[i].res))

\* C5: a request causes at most one upstream request, and none when it is
\* rejected by the configuration check or by the allow-list check, or when
\* it is a request to /, to /api/health or to an unmatched path.
C5_NoRetries ==
  \A i \in Slots :
    LET s == requests[i]
    IN  /\ s.nUp <= 1
        /\ s.nUp = Len(s.upReq)
        /\ Falsy(CWA_API_KEY) => s.nUp = 0
        /\ (s.pc = "done" /\ Val(s.res).status = 400) => s.nUp = 0
        /\ (s.pc = "done" /\ IsConfigError(Val(s.res))) => s.nUp = 0
        /\ (s.pc # "idle" /\ s.handler \notin DataHandlers) => s.nUp = 0

\* one request was rejected by the allow-list check without an upstream
\* request, and one ran to its end after a failed upstream call with
\* exactly one upstream request
C5_Witness ==
  \E i, j \in Slots :
    /\ requests[i].pc = "done"
    /\ Val(requests[i].res).status = 400
    /\ requests[i].nUp = 0
    /\ requests[j].pc = "done"
    /\ IsSome(requests[j].upRes)
    /\ ~Is2xx(Val(requests[j].upRes))
    /\ requests[j].nUp = 1

\* C6: GET /api/weather/all with the key set and a 2xx upstream answer that
\* has a records object: zero locations (location empty or absent) give 404
\* with the no-data payload; otherwise the response is a success with one
\* record per location, in upstream order.
C6_AllRegionsInOrder ==
  \A i \in Slots :
    LET s == requests[i]
    IN  (Finished(i) /\ s.handler = "all" /\ IsSome(s.upRes) /\ Is2xx(Val(s.upRes))
         /\ HasRecords(Val(s.upRes)))
        => LET locations == UpstreamLocations(Val(s.upRes))
               res == Val(s.res)
           IN  /\ s.pc = "done"
               /\ Len(locations) = 0
                    => (res.status = 404 /\ res.body.error = Some(ERR_NO_DATA))
               /\ Len(locations) > 0
                    => /\ res.status = 200
                       /\ res.body.success = Some(TRUE)
                       /\ IsSome(res.body.data)
                       /\ Len(Val(res.body.data).items) = Len(locations)
                       /\ \A k \in 1..Len(locations) :
                            Val(res.body.data).items[k].city
                              = locations[k].locationName

\* the field of a forecast record that the element kind writes
FieldOf(forecast, name) ==
  IF name = "Wx" THEN forecast.weather
  ELSE IF name = "PoP" THEN forecast.rain
  ELSE IF name = "MinT" THEN forecast.minTemp
  ELSE IF name = "MaxT" THEN forecast.maxTemp
  ELSE IF name = "CI" THEN forecast.comfort
  ELSE forecast.windSpeed

\* the text the element kind makes of a parameterName
Rendered(name, parameterName) ==
  IF name = "PoP" THEN parameterName \o PERCENT
  ELSE IF name \in {"MinT", "MaxT"} THEN parameterName \o DEGREE_C
  ELSE parameterName

KnownNames == {"Wx", "PoP", "MinT", "MaxT", "CI", "WS"}

ArgElements == IF IsSome(reshapeArg) THEN Val(reshapeArg) ELSE <<>>

\* C7: parseWeatherElements returns without error, for every element array,
\* as many records as the first element has time entries; record i carries
\* the start and end time of the first element's entry i and, for each known
\* kind present, the value of an element of that kind at entry i.
C7_ReshapeLengthAndOrder ==
  IsSome(reshapeResult) =>
    LET r == Val(reshapeResult)
        n == timeCount(reshapeArg)
    IN  /\ ~r.threw
        /\ Len(r.forecasts) = n
        /\ \A i \in 1..n :
             /\ r.forecasts[i].startTime = Val(ArgElements[1].time)[i].startTime
             /\ r.forecasts[i].endTime = Val(ArgElements[1].time)[i].endTime
             /\ \A name \in KnownNames :
                  (\E j \in 1..Len(ArgElements) : ArgElements[j].elementName = name)
                  => \E j \in 1..Len(ArgElements) :
                       /\ ArgElements[j].elementName = name
                       /\ HasSlot(ArgElements[j], i)
                       /\ FieldOf(r.forecasts[i], name)
                            = Rendered(name, Val(ArgElements[j].time)[i]
                                               .parameter.parameterName)

\* C8: every record parseWeatherElements returns has the six weather fields,
\* a field being the empty string when no element of its kind is in the
\* array; elements of unknown kind raise no error: when every element of a
\* known kind has an entry for every slot, the call returns.
C8_ReshapeFieldCoverage ==
  IsSome(reshapeResult) =>
    LET r == Val(reshapeResult)
        n == timeCount(reshapeArg)
    IN  /\ \A i \in 1..Len(r.forecasts), name \in KnownNames :
             (\A j \in 1..Len(ArgElements) : ArgElements[j].elementName # name)
             => FieldOf(r.forecasts[i], name) = <<>>
        /\ (\A j \in 1..Len(ArgElements), i \in 1..n :
              ArgElements[j].elementName \in KnownNames
              => HasSlot(ArgElements[j], i))
           => ~r.threw

\* C9: GET /api/weather/city/<高雄市> and GET /api/weather/kaohsiung issue
\* the same upstream request and, for the same upstream outcome, give the
\* same status and the same body.
C9_CityIsKaohsiung ==
  \A i, j \in Slots :
    LET c == requests[i]
        k == requests[j]
    IN  (c.pc # "idle" /\ c.handler = "city" /\ c.cityName = Some(KAOHSIUNG)
         /\ k.pc # "idle" /\ k.handler = "kaohsiung")
        => /\ c.upReq = k.upReq
           /\ (Finished(i) /\ Finished(j) /\ c.upRes = k.upRes)
                => (c.pc = k.pc /\ c.res = k.res)

\* two finished requests to the same data endpoint, with the same parameter
\* and the same upstream result, have the same response
SameInputsSameResponse ==
  \A i, j \in Slots :
    (Finished(i) /\ Finished(j)
     /\ requests[i].handler \in DataHandlers
     /\ requests[i].req = requests[j].req
     /\ requests[i].upRes = requests[j].upRes)
    => (requests[i].pc = requests[j].pc /\ requests[i].res = requests[j].res)

====
